---- MODULE Spec2Model ----
(***************************************************************************)
(* Qwen3-nothink API gateway: the response-normalisation pipeline          *)
(* (app/services/vllm_service.py) and the route layer (app/main.py).       *)
(*                                                                         *)
(* Byte strings are sequences of lexemes.  A lexeme stands for a fixed run *)
(* of bytes: "data:" is the five bytes of the SSE field name, "\n" is one  *)
(* line feed, "\"content\"" is a JSON string literal with its quotes.      *)
(* The alphabet is chosen so that a byte string has one decomposition.     *)
(***************************************************************************)
EXTENDS Integers, Sequences, FiniteSets, TLC

VARIABLES
    \* -- Field Patcher specification (SpecPatch)
    msg0,        \* the message object as decoded, before patching
    msg,         \* the message object, mutated in place
    body0,       \* a buffered response body, as received
    body,        \* the body returned by _patch_reasoning_in_json_bytes
    patchCalls,  \* how many times the patcher ran on msg
    \* -- SSE Splitter/Rejoiner specification (SpecStream)
    sChunk,      \* the chunk _stream_patch is processing, <<>> between chunks
    sEi,         \* index of the next event of chunk.split(b"\n\n")
    sYields,     \* what _stream_patch has yielded for sChunk, in order
    sRaised,     \* the except branch ran for sChunk
    sNumChunks,  \* chunks read from the backend so far
    sInFrames,   \* frames received so far
    sOutFrames,  \* frames emitted so far
    sShape,      \* what kind of stream the backend has sent so far
    sEnded,      \* the backend stream is exhausted
    \* -- HTTP client lifecycle (SpecClient, SpecGateway)
    _http_client,  \* the module global: 0 is None, else the id of the client
    constructed,   \* how many httpx.AsyncClient objects were constructed
    closeCalls,    \* aclose() calls per client id
    shutPc,        \* close_http_client: "running", "closing" (in aclose), "closed"
    tPc,           \* per request task: "idle", "has" (holds a client), "sent"
    tClient,       \* per request task: the client get_http_client returned
    tLate,         \* per request task: it got its client after shutdown began
    \* -- one request through the gateway (SpecGateway)
    gPc,         \* where the request is
    gRoute,      \* "chat" or "generic"
    gReq,        \* the validated ChatCompletionRequest (chat route)
    gAccept,     \* the Accept header asks for text/event-stream (generic route)
    gPayload,    \* the outbound payload (chat route)
    gStream,     \* is_streaming_request
    gStatus,     \* backend status code, 0 before the backend answered
    gBody,       \* backend body: the bytes read, or the chunks streamed so far
    gRead,       \* response.aread() returned
    gClosed,     \* response.aclose() calls made by the gateway
    gFail,       \* "", or the kind of failure the request ended with
    gExc,        \* the text of the exception, str(e), for an internal failure
    gResp        \* what the caller receives

patchVars == <<msg0, msg, body0, body, patchCalls>>
streamVars ==
    <<sChunk, sEi, sYields, sRaised, sNumChunks, sInFrames, sOutFrames, sShape, sEnded>>

clientVars == <<_http_client, constructed, closeCalls, shutPc, tPc, tClient, tLate>>
gateVars ==
    <<gPc, gRoute, gReq, gAccept, gPayload, gStream, gStatus, gBody, gRead, gClosed,
      gFail, gExc, gResp>>

vars == <<patchVars, streamVars, clientVars, gateVars>>

(***************************************************************************)
(* Bounds                                                                  *)
(***************************************************************************)
\* how many times the patcher is applied to one message
MaxPatchCalls == 2
\* frames in one chunk read from the backend
MaxFrames == 2
\* chunks in one backend stream
MaxChunks == 2
\* concurrent request tasks
MaxTasks == 3
\* chunks of one streamed response through the gateway
MaxStreamChunks == 2

(***************************************************************************)
(* JSON values, as json.loads builds them.  A dict keeps insertion order.  *)
(***************************************************************************)
JNull == [t |-> "null", s |-> "", k |-> <<>>]
JStr(x) == [t |-> "str", s |-> x, k |-> <<>>]
JNum(x) == [t |-> "num", s |-> x, k |-> <<>>]
JArr(items) == [t |-> "arr", s |-> "", k |-> items]
JObj(pairs) == [t |-> "obj", s |-> "", k |-> pairs]
KV(key, val) == [key |-> key, val |-> val]

\* the texts of the string literals of the alphabet
StrTexts ==
    {"", "hi", "think", "choices", "delta", "message", "content",
     "reasoning_content", "role", "error", "oom"}
NumLex == {"1"}
WsLex == {" ", "\n"}

\* the lexeme of the string literal with text x
StrLexOf(x) == "\"" \o x \o "\""
StrLex == {StrLexOf(x) : x \in StrTexts}
StrTextOf(l) == CHOOSE x \in StrTexts : StrLexOf(x) = l

RECURSIVE SkipWs(_)
SkipWs(toks) ==
    IF toks # <<>> /\ Head(toks) \in WsLex THEN SkipWs(Tail(toks)) ELSE toks

\* dict operations
HasKey(o, key) == \E i \in 1..Len(o.k) : o.k[i].key = key
KeyIndex(o, key) == CHOOSE i \in 1..Len(o.k) : o.k[i].key = key
\* d[key]
DictItem(o, key) == o.k[KeyIndex(o, key)].val
\* d.get(key, default)
DictGet(o, key, default) == IF HasKey(o, key) THEN DictItem(o, key) ELSE default
\* d[key] = val
DictSet(o, key, val) ==
    IF HasKey(o, key)
    THEN JObj([o.k EXCEPT ![KeyIndex(o, key)] = KV(key, val)])
    ELSE JObj(Append(o.k, KV(key, val)))
\* del d[key]
DictDel(o, key) ==
    LET i == KeyIndex(o, key)
    IN  JObj(SubSeq(o.k, 1, i - 1) \o SubSeq(o.k, i + 1, Len(o.k)))

Fail == [ok |-> FALSE, val |-> JNull, rest |-> <<>>]

RECURSIVE ParseValue(_), ParseMembers(_, _), ParseElements(_, _)
\* one JSON value at the head of toks
ParseValue(toks) ==
    IF toks = <<>> THEN Fail
    ELSE LET h == Head(toks)
             r == Tail(toks)
         IN  CASE h = "{" ->
                    IF SkipWs(r) # <<>> /\ Head(SkipWs(r)) = "}"
                    THEN [ok |-> TRUE, val |-> JObj(<<>>), rest |-> Tail(SkipWs(r))]
                    ELSE ParseMembers(SkipWs(r), JObj(<<>>))
               [] h = "[" ->
                    IF SkipWs(r) # <<>> /\ Head(SkipWs(r)) = "]"
                    THEN [ok |-> TRUE, val |-> JArr(<<>>), rest |-> Tail(SkipWs(r))]
                    ELSE ParseElements(SkipWs(r), <<>>)
               [] h \in StrLex -> [ok |-> TRUE, val |-> JStr(StrTextOf(h)), rest |-> r]
               [] h \in NumLex -> [ok |-> TRUE, val |-> JNum(h), rest |-> r]
               [] h = "null" -> [ok |-> TRUE, val |-> JNull, rest |-> r]
               [] OTHER -> Fail

\* "key": value pairs up to the closing brace; a repeated key keeps its first
\* position and takes the last value, as dict() does
ParseMembers(toks, acc) ==
    IF toks = <<>> \/ Head(toks) \notin StrLex THEN Fail
    ELSE LET key == StrTextOf(Head(toks))
             a == SkipWs(Tail(toks))
         IN  IF a = <<>> \/ Head(a) # ":" THEN Fail
             ELSE LET v == ParseValue(SkipWs(Tail(a)))
                      b == SkipWs(v.rest)
                  IN  IF ~v.ok \/ b = <<>> THEN Fail
                      ELSE IF Head(b) = "}"
                           THEN [ok |-> TRUE, val |-> DictSet(acc, key, v.val),
                                 rest |-> Tail(b)]
                      ELSE IF Head(b) = ","
                           THEN ParseMembers(SkipWs(Tail(b)), DictSet(acc, key, v.val))
                      ELSE Fail

ParseElements(toks, acc) ==
    LET v == ParseValue(toks)
        b == SkipWs(v.rest)
    IN  IF ~v.ok \/ b = <<>> THEN Fail
        ELSE IF Head(b) = "]"
             THEN [ok |-> TRUE, val |-> JArr(Append(acc, v.val)), rest |-> Tail(b)]
        ELSE IF Head(b) = ","
             THEN ParseElements(SkipWs(Tail(b)), Append(acc, v.val))
        ELSE Fail

\* json.loads(b): ok is FALSE where json.loads raises
json_loads(b) ==
    LET r == ParseValue(SkipWs(b))
    IN  IF r.ok /\ SkipWs(r.rest) = <<>>
        THEN [ok |-> TRUE, val |-> r.val]
        ELSE [ok |-> FALSE, val |-> JNull]

RECURSIVE Dump(_, _), DumpPairs(_, _), DumpItems(_, _)
\* the serialisation of v with sp after each "," and ":"
Dump(v, sp) ==
    CASE v.t = "obj" -> <<"{">> \o DumpPairs(v.k, sp) \o <<"}">>
      [] v.t = "arr" -> <<"[">> \o DumpItems(v.k, sp) \o <<"]">>
      [] v.t = "str" -> <<StrLexOf(v.s)>>
      [] v.t = "num" -> <<v.s>>
      [] OTHER -> <<"null">>

DumpPairs(ps, sp) ==
    IF ps = <<>> THEN <<>>
    ELSE <<StrLexOf(ps[1].key), ":">> \o sp \o Dump(ps[1].val, sp)
         \o (IF Len(ps) > 1 THEN <<",">> \o sp \o DumpPairs(Tail(ps), sp) ELSE <<>>)

DumpItems(xs, sp) ==
    IF xs = <<>> THEN <<>>
    ELSE Dump(xs[1], sp)
         \o (IF Len(xs) > 1 THEN <<",">> \o sp \o DumpItems(Tail(xs), sp) ELSE <<>>)

\* json.dumps(v).encode(): default separators ", " and ": "
json_dumps(v) == Dump(v, <<" ">>)

\* the backend's own serialisation: compact separators
BackendEncode(v) == Dump(v, <<>>)

(***************************************************************************)
(* The parts of the state a specification does not use stay as they are    *)
(* here.                                                                   *)
(***************************************************************************)
PatchIdle ==
    /\ msg0 = JObj(<<>>)
    /\ msg = JObj(<<>>)
    /\ body0 = <<>>
    /\ body = <<>>
    /\ patchCalls = 0

StreamIdle ==
    /\ sChunk = <<>>
    /\ sEi = 0
    /\ sYields = <<>>
    /\ sRaised = FALSE
    /\ sNumChunks = 0
    /\ sInFrames = 0
    /\ sOutFrames = 0
    /\ sShape = "rc"
    /\ sEnded = FALSE

Tasks == 1..MaxTasks

ClientIdle ==
    /\ _http_client = 0
    /\ constructed = 0
    /\ closeCalls = <<>>
    /\ shutPc = "running"
    /\ tPc = [t \in Tasks |-> "idle"]
    /\ tClient = [t \in Tasks |-> 0]
    /\ tLate = [t \in Tasks |-> FALSE]

NoResp == [status |-> 0, body |-> <<>>, complete |-> FALSE]

GateIdle ==
    /\ gPc = "start"
    /\ gRoute = "generic"
    /\ gReq = [fields |-> <<>>, set |-> {}]
    /\ gAccept = FALSE
    /\ gPayload = <<>>
    /\ gStream = FALSE
    /\ gStatus = 0
    /\ gBody = <<>>
    /\ gRead = FALSE
    /\ gClosed = 0
    /\ gFail = ""
    /\ gExc = ""
    /\ gResp = NoResp

(***************************************************************************)
(* Field Patcher                                                           *)
(***************************************************************************)
\* x in (None, ""), for x = d.get(key)
NoneOrEmpty(o, key) ==
    ~HasKey(o, key) \/ DictItem(o, key) = JNull \/ DictItem(o, key) = JStr("")

\* d.get(key) is None
GetIsNone(o, key) == ~HasKey(o, key) \/ DictItem(o, key) = JNull

\* the message after _patch_reasoning_in_message(m), m a dict
_patch_reasoning_in_message(m) ==
    IF GetIsNone(m, "reasoning_content") THEN m
    ELSE LET moved == IF NoneOrEmpty(m, "content")
                      THEN DictSet(m, "content", DictItem(m, "reasoning_content"))
                      ELSE m
         IN  DictDel(moved, "reasoning_content")

\* what the for loop of _patch_reasoning_in_json_bytes iterates over, and
\* whether iterating it raises (None, a number)
IterItems(v) ==
    CASE v.t = "arr" -> [ok |-> TRUE, items |-> v.k]
      [] v.t = "obj" -> [ok |-> TRUE, items |-> [i \in 1..Len(v.k) |-> JStr(v.k[i].key)]]
      [] v.t = "str" -> [ok |-> v.s = "", items |-> <<>>]
      [] OTHER -> [ok |-> FALSE, items |-> <<>>]

\* choice.get("message", {}) and the patcher on it; ok is FALSE where it raises
PatchChoice(choice) ==
    IF choice.t # "obj" THEN [ok |-> FALSE, val |-> choice]
    ELSE IF ~HasKey(choice, "message") THEN [ok |-> TRUE, val |-> choice]
    ELSE IF DictItem(choice, "message").t # "obj" THEN [ok |-> FALSE, val |-> choice]
    ELSE [ok |-> TRUE,
          val |-> DictSet(choice, "message",
                          _patch_reasoning_in_message(DictItem(choice, "message")))]

_patch_reasoning_in_json_bytes(b) ==
    LET d == json_loads(b)
    IN  IF ~d.ok \/ d.val.t # "obj" THEN b
        ELSE IF ~HasKey(d.val, "choices") THEN json_dumps(d.val)
        ELSE LET it == IterItems(DictItem(d.val, "choices"))
                 ps == [i \in 1..Len(it.items) |-> PatchChoice(it.items[i])]
             IN  IF ~it.ok \/ \E i \in 1..Len(ps) : ~ps[i].ok THEN b
                 ELSE IF DictItem(d.val, "choices").t # "arr" THEN json_dumps(d.val)
                 ELSE json_dumps(DictSet(d.val, "choices",
                                         JArr([i \in 1..Len(ps) |-> ps[i].val])))

(***************************************************************************)
(* SSE Frame Splitter/Rejoiner: _stream_patch                              *)
(***************************************************************************)
NN == <<"\n", "\n">>

RECURSIVE SplitFrom(_, _)
SplitFrom(b, cur) ==
    IF b = <<>> THEN <<cur>>
    ELSE IF Len(b) >= 2 /\ b[1] = "\n" /\ b[2] = "\n"
         THEN <<cur>> \o SplitFrom(SubSeq(b, 3, Len(b)), <<>>)
         ELSE SplitFrom(Tail(b), Append(cur, Head(b)))

\* chunk.split(b"\n\n")
Split(b) == SplitFrom(b, <<>>)

RECURSIVE RStrip(_)
RStrip(b) ==
    IF b # <<>> /\ b[Len(b)] \in WsLex THEN RStrip(SubSeq(b, 1, Len(b) - 1)) ELSE b

\* b.strip()
Strip(b) == RStrip(SkipWs(b))

\* event.startswith(b"data:")
StartsWithData(event) == event # <<>> /\ Head(event) = "data:"

\* "reasoning_content" in delta; ok is FALSE where the test raises.  On a
\* str the test is a substring test: of the string texts of the alphabet
\* only "reasoning_content" contains it.
InDelta(delta) ==
    CASE delta.t = "obj" -> [ok |-> TRUE, isin |-> HasKey(delta, "reasoning_content")]
      [] delta.t = "arr" ->
            [ok |-> TRUE,
             isin |-> \E i \in 1..Len(delta.k) : delta.k[i] = JStr("reasoning_content")]
      [] delta.t = "str" -> [ok |-> TRUE, isin |-> delta.s = "reasoning_content"]
      [] OTHER -> [ok |-> FALSE, isin |-> FALSE]

\* lines 94-98 without the else branch: reasoning_content stays next to a
\* non-empty content
PatchDeltaNoElse(delta) ==
    IF ~HasKey(delta, "reasoning_content") THEN delta
    ELSE IF ~HasKey(delta, "content") \/ NoneOrEmpty(delta, "content")
         THEN DictSet(DictDel(delta, "reasoning_content"), "content",
                      DictItem(delta, "reasoning_content"))
         ELSE delta

\* lines 94-98 on a dict delta
PatchDelta(delta) ==
    IF ~HasKey(delta, "reasoning_content") THEN delta
    ELSE IF ~HasKey(delta, "content") \/ NoneOrEmpty(delta, "content")
         THEN DictSet(DictDel(delta, "reasoning_content"), "content",
                      DictItem(delta, "reasoning_content"))
         ELSE DictDel(delta, "reasoning_content")

Raise == [raised |-> TRUE, out |-> <<>>]
Yield(b) == [raised |-> FALSE, out |-> b]

\* lines 93-100 for a decoded payload: what is yielded, or that it raises
PatchEvent(obj) ==
    IF obj.t # "obj" THEN Raise
    ELSE LET choices == DictGet(obj, "choices", JArr(<<JObj(<<>>)>>))
         IN  IF ~(choices.t = "arr" /\ Len(choices.k) >= 1) THEN Raise
             ELSE IF choices.k[1].t # "obj" THEN Raise
             ELSE LET first == choices.k[1]
                      delta == DictGet(first, "delta", JObj(<<>>))
                      isin == InDelta(delta)
                  IN  IF ~isin.ok THEN Raise
                      ELSE IF isin.isin /\ delta.t # "obj" THEN Raise
                      ELSE IF ~HasKey(obj, "choices") THEN Raise
                      ELSE LET d2 == IF delta.t = "obj" THEN PatchDelta(delta) ELSE delta
                               c2 == JArr([choices.k EXCEPT ![1] = DictSet(first, "delta", d2)])
                           IN  Yield(<<"data:", " ">>
                                     \o json_dumps(DictSet(obj, "choices", c2)) \o NN)

\* the for loop body with the decode failure re-emitting the payload, not
\* the event
EventResultEmitsPayload(event) ==
    IF ~StartsWithData(event) THEN Yield(event \o NN)
    ELSE LET payload == Strip(Tail(event))
         IN  IF payload = <<"[DONE]">> THEN Yield(event \o NN)
             ELSE IF ~json_loads(payload).ok THEN Yield(payload \o NN)
             ELSE PatchEvent(json_loads(payload).val)

\* the body of the for loop, lines 81-100, for one event
EventResult(event) ==
    IF ~StartsWithData(event) THEN Yield(event \o NN)
    ELSE LET payload == Strip(Tail(event))
         IN  IF payload = <<"[DONE]">> THEN Yield(event \o NN)
             ELSE IF ~json_loads(payload).ok THEN Yield(event \o NN)
             ELSE PatchEvent(json_loads(payload).val)

\* the non-empty segments between blank-line separators: the SSE frames
Frames(b) == SelectSeq(Split(b), LAMBDA f : f # <<>>)

RECURSIVE Concat(_)
Concat(ys) == IF ys = <<>> THEN <<>> ELSE Head(ys) \o Concat(Tail(ys))

(***************************************************************************)
(* SpecStream: the backend sends chunks of whole frames; _stream_patch     *)
(* runs its for loop over each, one yield at a time.                       *)
(***************************************************************************)
DeltaFrame(delta) ==
    <<"data:", " ">>
    \o BackendEncode(JObj(<<KV("choices", JArr(<<JObj(<<KV("delta", delta)>>)>>))>>))

\* frames whose delta carries reasoning_content
RcFrameTexts ==
    { DeltaFrame(JObj(<<KV("reasoning_content", JStr("think"))>>)),
      DeltaFrame(JObj(<<KV("content", JStr("hi")), KV("reasoning_content", JStr("think"))>>)),
      DeltaFrame(JObj(<<KV("reasoning_content", JStr("think")), KV("content", JStr(""))>>)) }
DoneFrame == <<"data:", " ", "[DONE]">>
\* a data frame cut short, which json.loads rejects
MalformedFrame == <<"data:", " ", "{", StrLexOf("choices"), ":", "[", "{">>
\* a data frame that decodes but has no first choice
NoChoiceFrame == <<"data:", " ">> \o BackendEncode(JObj(<<KV("choices", JArr(<<>>))>>))
\* a comment frame
CommentFrame == <<":", "keep-alive">>
FrameTexts == RcFrameTexts \cup {NoChoiceFrame, DoneFrame, MalformedFrame, CommentFrame}

RECURSIVE ChunksOfLen(_)
ChunksOfLen(n) ==
    IF n = 0 THEN {<<>>}
    ELSE {f \o NN \o c : f \in FrameTexts, c \in ChunksOfLen(n - 1)}

\* chunks of one to MaxFrames whole frames
Chunks == UNION {ChunksOfLen(n) : n \in 1..MaxFrames}

\* the frame is a data frame with a JSON object that has choices[0].delta
DeltaOf(f) ==
    LET d == json_loads(Strip(Tail(f)))
    IN  IF StartsWithData(f) /\ d.ok /\ d.val.t = "obj" /\ HasKey(d.val, "choices")
           /\ DictItem(d.val, "choices").t = "arr"
           /\ Len(DictItem(d.val, "choices").k) >= 1
           /\ DictItem(d.val, "choices").k[1].t = "obj"
           /\ HasKey(DictItem(d.val, "choices").k[1], "delta")
           /\ DictItem(DictItem(d.val, "choices").k[1], "delta").t = "obj"
        THEN [ok |-> TRUE, delta |-> DictItem(DictItem(d.val, "choices").k[1], "delta")]
        ELSE [ok |-> FALSE, delta |-> JNull]

IsRcFrame(f) == DeltaOf(f).ok /\ HasKey(DeltaOf(f).delta, "reasoning_content")
IsMalformed(f) ==
    StartsWithData(f) /\ Strip(Tail(f)) # <<"[DONE]">> /\ ~json_loads(Strip(Tail(f))).ok

\* the kind of stream after chunk c: "rc" while every frame carried
\* reasoning_content, "done" once such a stream is closed by [DONE]
ShapeAfter(shape, c) ==
    LET fs == Frames(c)
        n == Len(fs)
    IN  IF shape # "rc" THEN "other"
        ELSE IF \A i \in 1..n : IsRcFrame(fs[i]) THEN "rc"
        ELSE IF fs[n] = DoneFrame /\ \A i \in 1..(n - 1) : IsRcFrame(fs[i]) THEN "done"
        ELSE "other"

\* async for chunk in gen: the next chunk arrives
StreamRead ==
    /\ sEi = 0 /\ ~sEnded /\ sNumChunks < MaxChunks
    /\ \E c \in Chunks :
          /\ sChunk' = c
          /\ sInFrames' = sInFrames + Len(Frames(c))
          /\ sShape' = ShapeAfter(sShape, c)
    /\ sEi' = 1
    /\ sYields' = <<>>
    /\ sRaised' = FALSE
    /\ sNumChunks' = sNumChunks + 1
    /\ UNCHANGED <<sOutFrames, sEnded>>
    /\ UNCHANGED <<patchVars, clientVars, gateVars>>

\* one iteration of the for loop that reaches a yield
StreamYield ==
    /\ sEi >= 1
    /\ LET r == EventResult(Split(sChunk)[sEi])
       IN  /\ ~r.raised
           /\ sYields' = Append(sYields, r.out)
           /\ sOutFrames' = sOutFrames + Len(Frames(r.out))
    /\ sEi' = IF sEi = Len(Split(sChunk)) THEN 0 ELSE sEi + 1
    /\ UNCHANGED <<sChunk, sRaised, sNumChunks, sInFrames, sShape, sEnded>>
    /\ UNCHANGED <<patchVars, clientVars, gateVars>>

\* one iteration that raises: the except branch yields the chunk
StreamFallback ==
    /\ sEi >= 1
    /\ EventResult(Split(sChunk)[sEi]).raised
    /\ sYields' = Append(sYields, sChunk)
    /\ sOutFrames' = sOutFrames + Len(Frames(sChunk))
    /\ sRaised' = TRUE
    /\ sEi' = 0
    /\ UNCHANGED <<sChunk, sNumChunks, sInFrames, sShape, sEnded>>
    /\ UNCHANGED <<patchVars, clientVars, gateVars>>

\* the backend stream is exhausted and the generator returns
StreamEnd ==
    /\ sEi = 0 /\ ~sEnded /\ sNumChunks >= 1
    /\ sEnded' = TRUE
    /\ UNCHANGED <<sChunk, sEi, sYields, sRaised, sNumChunks, sInFrames, sOutFrames, sShape>>
    /\ UNCHANGED <<patchVars, clientVars, gateVars>>

StreamNext == StreamRead \/ StreamYield \/ StreamFallback \/ StreamEnd

InitStream == PatchIdle /\ StreamIdle /\ ClientIdle /\ GateIdle

SpecStream == InitStream /\ [][StreamNext]_vars

\* the chunk in sChunk has been processed to its end
ChunkDone == sNumChunks >= 1 /\ sEi = 0

\* an emitted data frame decodes and its delta has no reasoning_content
CleanFrame(f) ==
    \/ f = DoneFrame
    \/ /\ StartsWithData(f)
       /\ json_loads(Strip(Tail(f))).ok
       /\ DeltaOf(f).ok
       /\ ~HasKey(DeltaOf(f).delta, "reasoning_content")

\* C3: for a stream of data frames that carry choices[0].delta.reasoning_content,
\* closed by data: [DONE], sent in chunks of whole frames, the output holds as
\* many frames as the input, every emitted data frame is JSON without
\* reasoning_content, and the [DONE] frame comes out byte for byte.
C3_RoundTrip ==
    sShape \in {"rc", "done"} =>
        /\ \A i \in 1..Len(sYields) :
              \A j \in 1..Len(Frames(sYields[i])) : CleanFrame(Frames(sYields[i])[j])
        /\ ChunkDone => sOutFrames = sInFrames
        /\ (ChunkDone /\ sShape = "done") =>
              LET n == Len(Frames(sChunk))
              IN  /\ Frames(sChunk)[n] = DoneFrame
                  /\ Len(sYields) >= n
                  /\ sYields[n] = Frames(sChunk)[n] \o NN

C3_Witness ==
    /\ sEnded /\ sShape = "done" /\ sNumChunks >= 2 /\ sInFrames >= 3
    /\ Len(Frames(sChunk)) = 2

\* the delta of output frame g is the delta of input frame f, patched
PatchedFrom(f, g) ==
    LET din == DeltaOf(f).delta
        dout == DeltaOf(g).delta
    IN  /\ DeltaOf(g).ok
        /\ ~HasKey(dout, "reasoning_content")
        /\ HasKey(din, "reasoning_content") =>
              /\ HasKey(dout, "content")
              /\ DictItem(dout, "content") =
                    IF NoneOrEmpty(din, "content") THEN DictItem(din, "reasoning_content")
                    ELSE DictItem(din, "content")

\* the chunk holds a frame that does not decode, and no frame that raises
MalformedCase ==
    /\ ChunkDone /\ ~sRaised
    /\ \E i \in 1..Len(Frames(sChunk)) : IsMalformed(Frames(sChunk)[i])

\* C4: a data frame whose payload does not decode as JSON is emitted byte for
\* byte, and the data frames before and after it in the chunk are patched.
C4_MalformedFrame ==
    MalformedCase =>
        LET fs == Frames(sChunk)
        IN  /\ Len(sYields) >= Len(fs)
            /\ \A i \in 1..Len(fs) :
                  /\ IsMalformed(fs[i]) => sYields[i] = fs[i] \o NN
                  /\ DeltaOf(fs[i]).ok =>
                        /\ Len(Frames(sYields[i])) = 1
                        /\ PatchedFrom(fs[i], Frames(sYields[i])[1])

C4_Witness ==
    /\ MalformedCase
    /\ Len(Frames(sChunk)) = 2
    /\ \E i \in 1..2 : IsRcFrame(Frames(sChunk)[i])

\* C10: when a frame of the chunk raises, the output for the chunk is the
\* chunk's original bytes, once, and the stream goes on.
C10_FallbackEmitsChunkOnce ==
    (ChunkDone /\ sRaised) =>
        /\ Concat(sYields) = sChunk
        /\ ~sEnded => (sNumChunks < MaxChunks => ENABLED StreamRead)

(***************************************************************************)
(* SpecPatch: the Field Patcher on every message shape, and the buffered   *)
(* body patcher on bodies that carry the message.                          *)
(***************************************************************************)
\* the values a field of a backend message takes; "absent" is no key
FieldOptions == {"absent", "null", "empty", "text"}

FieldPairs(key, opt, text) ==
    CASE opt = "absent" -> <<>>
      [] opt = "null" -> <<KV(key, JNull)>>
      [] opt = "empty" -> <<KV(key, JStr(""))>>
      [] OTHER -> <<KV(key, JStr(text))>>

\* the message with the two fields in the given order
MakeMessage(c, r, contentFirst) ==
    LET cp == FieldPairs("content", c, "hi")
        rp == FieldPairs("reasoning_content", r, "think")
    IN  JObj(<<KV("role", JStr(""))>> \o (IF contentFirst THEN cp \o rp ELSE rp \o cp))

Messages == {MakeMessage(c, r, o) : c \in FieldOptions, r \in FieldOptions, o \in BOOLEAN}

\* buffered bodies that carry message m
BodiesOf(m) ==
    LET choice == JObj(<<KV("message", m)>>)
    IN  { BackendEncode(JObj(<<KV("choices", JArr(<<choice>>))>>)),
          BackendEncode(JObj(<<KV("choices", JArr(<<choice, choice>>))>>)),
          BackendEncode(JObj(<<KV("choices", JArr(<<JObj(<<>>), choice>>))>>)),
          BackendEncode(JObj(<<KV("choices", JArr(<<choice, JNull>>))>>)),
          BackendEncode(JObj(<<KV("error", JStr("oom"))>>)),
          BackendEncode(JArr(<<choice>>)),
          SubSeq(BackendEncode(choice), 1, 3) }

PatchInit ==
    /\ msg0 \in Messages
    /\ msg = msg0
    /\ body0 \in BodiesOf(msg0)
    /\ body = <<>>
    /\ patchCalls = 0

\* _patch_reasoning_in_message(msg)
PatchMessage ==
    /\ patchCalls < MaxPatchCalls
    /\ msg' = _patch_reasoning_in_message(msg)
    /\ patchCalls' = patchCalls + 1
    /\ UNCHANGED <<msg0, body0, body>>
    /\ UNCHANGED <<streamVars, clientVars, gateVars>>

\* body = _patch_reasoning_in_json_bytes(body0)
PatchBody ==
    /\ body = <<>>
    /\ body' = _patch_reasoning_in_json_bytes(body0)
    /\ UNCHANGED <<msg0, msg, body0, patchCalls>>
    /\ UNCHANGED <<streamVars, clientVars, gateVars>>

PatchNext == PatchMessage \/ PatchBody

InitPatch == PatchInit /\ StreamIdle /\ ClientIdle /\ GateIdle

SpecPatch == InitPatch /\ [][PatchNext]_vars

\* a field holds a non-empty string
NonEmpty(m, key) == HasKey(m, key) /\ DictItem(m, key).t = "str" /\ DictItem(m, key).s # ""

\* C5: after _patch_reasoning_in_message the key reasoning_content is not in
\* the message, and content is present whenever either field was non-empty:
\* the original reasoning_content when content was absent or empty, the
\* original content when it was non-empty.
C5_PatchedMessage ==
    patchCalls >= 1 =>
        /\ ~HasKey(msg, "reasoning_content")
        /\ (NonEmpty(msg0, "content") \/ NonEmpty(msg0, "reasoning_content")) =>
              /\ HasKey(msg, "content")
              /\ NoneOrEmpty(msg0, "content") =>
                    DictItem(msg, "content") = DictItem(msg0, "reasoning_content")
              /\ NonEmpty(msg0, "content") =>
                    DictItem(msg, "content") = DictItem(msg0, "content")

(***************************************************************************)
(* HTTP client lifecycle: get_http_client, close_http_client               *)
(***************************************************************************)
\* get_http_client without the "is None" test
GetClientAlwaysConstructs(cur, made) ==
    [client |-> made + 1, global |-> made + 1, made |-> made + 1]

\* get_http_client() with the global at cur and made clients so far: it has
\* no await, so it runs to its return without another task in between
get_http_client(cur, made) ==
    IF cur = 0
    THEN [client |-> made + 1, global |-> made + 1, made |-> made + 1]
    ELSE [client |-> cur, global |-> cur, made |-> made]

\* a request task calls get_http_client()
GetClient(t) ==
    /\ tPc[t] = "idle"
    /\ LET r == get_http_client(_http_client, constructed)
       IN  /\ _http_client' = r.global
           /\ constructed' = r.made
           /\ closeCalls' = IF r.made > constructed THEN Append(closeCalls, 0) ELSE closeCalls
           /\ tClient' = [tClient EXCEPT ![t] = r.client]
    /\ tPc' = [tPc EXCEPT ![t] = "has"]
    /\ tLate' = [tLate EXCEPT ![t] = shutPc # "running"]
    /\ UNCHANGED shutPc
    /\ UNCHANGED <<patchVars, streamVars, gateVars>>

\* the task sends its request on the client it holds
SendOnClient(t) ==
    /\ tPc[t] = "has"
    /\ tPc' = [tPc EXCEPT ![t] = "sent"]
    /\ UNCHANGED <<_http_client, constructed, closeCalls, shutPc, tClient, tLate>>
    /\ UNCHANGED <<patchVars, streamVars, gateVars>>

\* lifespan shutdown: close_http_client() up to its await
CloseBegin ==
    /\ shutPc = "running"
    /\ IF _http_client # 0
       THEN /\ closeCalls' = [closeCalls EXCEPT ![_http_client] = @ + 1]
            /\ shutPc' = "closing"
       ELSE /\ closeCalls' = closeCalls
            /\ shutPc' = "closed"
    /\ UNCHANGED <<_http_client, constructed, tPc, tClient, tLate>>
    /\ UNCHANGED <<patchVars, streamVars, gateVars>>

\* aclose() returned: _http_client = None
CloseEnd ==
    /\ shutPc = "closing"
    /\ _http_client' = 0
    /\ shutPc' = "closed"
    /\ UNCHANGED <<constructed, closeCalls, tPc, tClient, tLate>>
    /\ UNCHANGED <<patchVars, streamVars, gateVars>>

ClientNext ==
    \/ \E t \in Tasks : GetClient(t)
    \/ \E t \in Tasks : SendOnClient(t)
    \/ CloseBegin
    \/ CloseEnd

InitClient == PatchIdle /\ StreamIdle /\ ClientIdle /\ GateIdle

SpecClient == InitClient /\ [][ClientNext]_vars

\* C7: concurrent first requests construct the client once and all get the
\* same instance.
C7_SingleConstruction ==
    shutPc = "running" =>
        /\ constructed <= 1
        /\ \A t, u \in Tasks :
              (tPc[t] # "idle" /\ tPc[u] # "idle") => tClient[t] = tClient[u]
        /\ \A t \in Tasks : tPc[t] # "idle" => tClient[t] = _http_client

C7_Witness ==
    /\ shutPc = "running"
    /\ constructed = 1
    /\ \A t \in Tasks : tPc[t] = "has"

\* C8: the pool is torn down exactly once at shutdown, and once
\* close_http_client has begun no request gets a client: not the one being
\* closed, and not a new one.
C8_NoClientAfterShutdown ==
    /\ \A t \in Tasks : ~tLate[t]
    /\ shutPc = "closed" => \A c \in 1..constructed : closeCalls[c] = 1
    /\ \A c \in 1..constructed : closeCalls[c] <= 1

(***************************************************************************)
(* Request Forwarder, chat path: the outbound payload                      *)
(***************************************************************************)
\* settings (app/core/config.py), as their JSON serialisation
DEFAULT_TEMPERATURE == "0.7"
DEFAULT_TOP_P == "0.8"
DEFAULT_TOP_K == "20"
DEFAULT_PRESENCE_PENALTY == "1.5"

\* the fields ChatCompletionRequest declares, with their defaults
DeclaredDefaults ==
    [model |-> "None", messages |-> "None", temperature |-> "None", top_p |-> "None",
     top_k |-> "None", n |-> "1", stream |-> "False", max_tokens |-> "None",
     presence_penalty |-> "None"]

\* d[key] = val on a payload dict
Assign(d, key, val) == [x \in DOMAIN d \cup {key} |-> IF x = key THEN val ELSE d[x]]

\* setdefault that overwrites what the caller sent
SetDefaultOverwrites(d, key, val) == Assign(d, key, val)

\* d.setdefault(key, val)
SetDefault(d, key, val) == IF key \in DOMAIN d THEN d ELSE Assign(d, key, val)

\* request.model_dump(exclude_unset=True)
model_dump(req) == [x \in req.set |-> req.fields[x]]

\* lines 180-187 of forward_chat_completion_request_to_vllm
BuildPayload(req) ==
    LET p0 == model_dump(req)
        p1 == Assign(p0, "chat_template_kwargs", [enable_thinking |-> "False"])
        p2 == SetDefault(p1, "temperature", DEFAULT_TEMPERATURE)
        p3 == SetDefault(p2, "top_p", DEFAULT_TOP_P)
        p4 == SetDefault(p3, "top_k", DEFAULT_TOP_K)
        p5 == SetDefault(p4, "presence_penalty", DEFAULT_PRESENCE_PENALTY)
    IN  SetDefault(p5, "model", req.fields["model"])

\* bool(payload.get("stream"))
IsStream(payload) == "stream" \in DOMAIN payload /\ payload["stream"] = "True"

\* what a caller may put in each optional field; "unset" leaves it out
FieldChoices ==
    [temperature |-> {"unset", "0.2", "None"},
     top_p |-> {"unset", "0.9"},
     top_k |-> {"unset", "40"},
     presence_penalty |-> {"unset", "0.0"},
     stream |-> {"unset", "False", "True"},
     seed |-> {"unset", "7"}]
KwargsChoices ==
    {<<>>, [enable_thinking |-> "True"], [enable_thinking |-> "True", add_prefix |-> "x"]}

\* the validated request for one choice per field; kw = <<>> sends no
\* chat_template_kwargs
MakeRequest(ch, kw) ==
    LET sent == {f \in DOMAIN ch : ch[f] # "unset"}
        names == (DOMAIN DeclaredDefaults) \cup sent
        plain == [x \in names |->
                    IF x = "model" THEN "qwen3"
                    ELSE IF x = "messages" THEN "msgs"
                    ELSE IF x \in sent THEN ch[x]
                    ELSE DeclaredDefaults[x]]
    IN  IF kw = <<>>
        THEN [fields |-> plain, set |-> sent \cup {"model", "messages"}]
        ELSE [fields |-> Assign(plain, "chat_template_kwargs", kw),
              set |-> sent \cup {"model", "messages", "chat_template_kwargs"}]

ChatRequests ==
    {MakeRequest([temperature |-> a, top_p |-> b, top_k |-> c, presence_penalty |-> d,
                  stream |-> e, seed |-> g], kw) :
        a \in FieldChoices.temperature, b \in FieldChoices.top_p,
        c \in FieldChoices.top_k, d \in FieldChoices.presence_penalty,
        e \in FieldChoices.stream, g \in FieldChoices.seed, kw \in KwargsChoices}

(***************************************************************************)
(* What the caller receives                                                *)
(***************************************************************************)
\* a byte that is not valid UTF-8
BadByte == "\\xff"

\* b.decode(errors="ignore")
DecodeIgnore(b) == SelectSeq(b, LAMBDA l : l # BadByte)

\* one lexeme inside a JSON string literal
EscapeLex(l) ==
    IF l \in StrLex THEN "\\\"" \o StrTextOf(l) \o "\\\""
    ELSE IF l = "\n" THEN "\\n"
    ELSE l

\* the response FastAPI renders for HTTPException(status_code, detail):
\* JSONResponse({"detail": detail}), compact separators
HTTPExceptionResponse(status_code, detail) ==
    [status |-> status_code,
     body |-> <<"{", StrLexOf("detail"), ":", "\"">>
              \o [i \in 1..Len(detail) |-> EscapeLex(detail[i])]
              \o <<"\"", "}">>,
     complete |-> TRUE]

\* StreamingResponse(iter([content]), status_code=...)
BufferedResponse(status_code, content) ==
    [status |-> status_code, body |-> content, complete |-> TRUE]

\* lines 80-82 and 97-99 of main.py: except Exception as e in a route
RouteInternalError(route, e) ==
    HTTPExceptionResponse(500,
        IF route = "chat" THEN <<"Internal server error: ", e>>
        ELSE <<"Internal server error during generic proxy: ", e>>)

RECURSIVE YieldsFrom(_, _, _)
YieldsFrom(chunk, evs, i) ==
    IF i > Len(evs) THEN <<>>
    ELSE LET r == EventResult(evs[i])
         IN  IF r.raised THEN <<chunk>>
             ELSE <<r.out>> \o YieldsFrom(chunk, evs, i + 1)

\* everything _stream_patch yields for one chunk
ChunkYields(chunk) == YieldsFrom(chunk, Split(chunk), 1)

(***************************************************************************)
(* SpecGateway: one request, from the route to the end of its response     *)
(***************************************************************************)
\* str(e) of exceptions that are neither httpx timeouts nor request errors
ExcTexts == {"Cannot send a request, as the client has been closed.", "boom"}
\* str(e) of a failure while the body is read
ReadExcTexts == {"peer closed connection"}
Statuses == {200, 201, 404, 500}
\* buffered bodies the backend answers with
BackendBodies ==
    { BackendEncode(JObj(<<KV("error", JStr("oom"))>>)),
      BackendEncode(JObj(<<KV("choices", JArr(<<JObj(<<KV("message",
          JObj(<<KV("content", JStr("")), KV("reasoning_content", JStr("think"))>>))>>)>>))>>)),
      <<BadByte, "{">> }
\* chunks the backend streams
GateChunks ==
    { DeltaFrame(JObj(<<KV("reasoning_content", JStr("think"))>>)) \o NN,
      DoneFrame \o NN }

GateInit ==
    /\ gPc = "start"
    /\ \/ gRoute = "chat" /\ gReq \in ChatRequests /\ gAccept = FALSE
       \/ gRoute = "generic" /\ gReq = [fields |-> <<>>, set |-> {}] /\ gAccept \in BOOLEAN
    /\ gPayload = <<>>
    /\ gStream = FALSE
    /\ gStatus = 0
    /\ gBody = <<>>
    /\ gRead = FALSE
    /\ gClosed = 0
    /\ gFail = ""
    /\ gExc = ""
    /\ gResp = NoResp

\* the forwarder's client = await get_http_client()
UseClient ==
    LET r == get_http_client(_http_client, constructed)
    IN  /\ _http_client' = r.global
        /\ constructed' = r.made
        /\ closeCalls' = IF r.made > constructed THEN Append(closeCalls, 0) ELSE closeCalls
        /\ UNCHANGED <<shutPc, tPc, tClient, tLate>>

\* chat_completions_custom -> forward_chat_completion_request_to_vllm, up to
\* await client.send
ChatForward ==
    /\ gPc = "start" /\ gRoute = "chat"
    /\ UseClient
    /\ gPayload' = BuildPayload(gReq)
    /\ gStream' = IsStream(BuildPayload(gReq))
    /\ gPc' = "sending"
    /\ UNCHANGED <<gRoute, gReq, gAccept, gStatus, gBody, gRead, gClosed, gFail, gExc, gResp>>
    /\ UNCHANGED <<patchVars, streamVars>>

\* generic_proxy -> forward_generic_request_to_vllm, up to await client.send
GenericForward ==
    /\ gPc = "start" /\ gRoute = "generic"
    /\ UseClient
    /\ gStream' = gAccept
    /\ gPc' = "sending"
    /\ UNCHANGED <<gRoute, gReq, gAccept, gPayload, gStatus, gBody, gRead, gClosed, gFail,
                   gExc, gResp>>
    /\ UNCHANGED <<patchVars, streamVars>>

\* the request ends with response r and failure kind f
Finish(r, f, e) ==
    /\ gResp' = r
    /\ gFail' = f
    /\ gExc' = e
    /\ gPc' = "done"

\* except httpx.TimeoutException
SendTimeout ==
    /\ gPc = "sending"
    /\ Finish(HTTPExceptionResponse(504,
                <<"Gateway timeout: backend LLM did not respond in time.">>), "timeout", "")
    /\ UNCHANGED <<gRoute, gReq, gAccept, gPayload, gStream, gStatus, gBody, gRead, gClosed>>
    /\ UNCHANGED <<patchVars, streamVars, clientVars>>

\* except (httpx.ConnectError, httpx.RequestError)
SendUnreachable ==
    /\ gPc = "sending"
    /\ Finish(HTTPExceptionResponse(503, <<"Backend LLM service unreachable.">>),
              "unreachable", "")
    /\ UNCHANGED <<gRoute, gReq, gAccept, gPayload, gStream, gStatus, gBody, gRead, gClosed>>
    /\ UNCHANGED <<patchVars, streamVars, clientVars>>

\* build_request or send raises anything else: the route's except Exception
SendRaises ==
    /\ gPc = "sending"
    /\ \E e \in ExcTexts : Finish(RouteInternalError(gRoute, e), "internal", e)
    /\ UNCHANGED <<gRoute, gReq, gAccept, gPayload, gStream, gStatus, gBody, gRead, gClosed>>
    /\ UNCHANGED <<patchVars, streamVars, clientVars>>

\* the backend answers: _handle_backend_response is entered
SendOk ==
    /\ gPc = "sending"
    /\ \E st \in Statuses : gStatus' = st
    /\ gPc' = "handle"
    /\ UNCHANGED <<gRoute, gReq, gAccept, gPayload, gStream, gBody, gRead, gClosed, gFail,
                   gExc, gResp>>
    /\ UNCHANGED <<patchVars, streamVars, clientVars>>

\* streaming branch, status != 200: aread, aclose, raise HTTPException
HandleStreamError ==
    /\ gPc = "handle" /\ gStream /\ gStatus # 200
    /\ \E b \in BackendBodies :
          /\ gBody' = b
          /\ Finish(HTTPExceptionResponse(gStatus, DecodeIgnore(b)), "backend", "")
    /\ gRead' = TRUE
    /\ gClosed' = gClosed + 1
    /\ UNCHANGED <<gRoute, gReq, gAccept, gPayload, gStream, gStatus>>
    /\ UNCHANGED <<patchVars, streamVars, clientVars>>

\* non-streaming branch: aread, aclose, pass through or patch
HandleBuffered ==
    /\ gPc = "handle" /\ ~gStream
    /\ \E b \in BackendBodies :
          /\ gBody' = b
          /\ IF gStatus >= 400
             THEN Finish(BufferedResponse(gStatus, b), "backend", "")
             ELSE Finish(BufferedResponse(gStatus, _patch_reasoning_in_json_bytes(b)), "", "")
    /\ gRead' = TRUE
    /\ gClosed' = gClosed + 1
    /\ UNCHANGED <<gRoute, gReq, gAccept, gPayload, gStream, gStatus>>
    /\ UNCHANGED <<patchVars, streamVars, clientVars>>

\* await response.aread() raises: nothing closes the response, and the
\* route's except Exception answers.  The chat route sends with
\* stream=is_stream, so without streaming the body was read by send.
HandleReadFails ==
    /\ gPc = "handle"
    /\ gStream => gStatus # 200
    /\ gRoute = "generic" \/ gStream
    /\ \E e \in ReadExcTexts : Finish(RouteInternalError(gRoute, e), "read", e)
    /\ UNCHANGED <<gRoute, gReq, gAccept, gPayload, gStream, gStatus, gBody, gRead, gClosed>>
    /\ UNCHANGED <<patchVars, streamVars, clientVars>>

\* streaming branch, status 200: StreamingResponse(patched_stream()) is
\* returned; the generator has not started
HandleStreamOk ==
    /\ gPc = "handle" /\ gStream /\ gStatus = 200
    /\ gPc' = "returned"
    /\ UNCHANGED <<gRoute, gReq, gAccept, gPayload, gStream, gStatus, gBody, gRead, gClosed,
                   gFail, gExc, gResp>>
    /\ UNCHANGED <<patchVars, streamVars, clientVars>>

\* the server sends the headers and starts to iterate patched_stream()
BodyStart ==
    /\ gPc = "returned"
    /\ gResp' = [status |-> gStatus, body |-> <<>>, complete |-> FALSE]
    /\ gPc' = "iterating"
    /\ UNCHANGED <<gRoute, gReq, gAccept, gPayload, gStream, gStatus, gBody, gRead, gClosed,
                   gFail, gExc>>
    /\ UNCHANGED <<patchVars, streamVars, clientVars>>

\* the caller is gone before the body iterator is started: the generator is
\* dropped unstarted, and its finally block never runs
DisconnectBeforeBody ==
    /\ gPc = "returned"
    /\ Finish(gResp, "disconnect", "")
    /\ UNCHANGED <<gRoute, gReq, gAccept, gPayload, gStream, gStatus, gBody, gRead, gClosed>>
    /\ UNCHANGED <<patchVars, streamVars, clientVars>>

\* async for chunk in _stream_patch(response.aiter_bytes()): yield chunk
BodyChunk ==
    /\ gPc = "iterating" /\ Len(gBody) < MaxStreamChunks
    /\ \E c \in GateChunks :
          /\ gBody' = Append(gBody, c)
          /\ gResp' = [gResp EXCEPT !.body = @ \o Concat(ChunkYields(c))]
    /\ UNCHANGED <<gPc, gRoute, gReq, gAccept, gPayload, gStream, gStatus, gRead, gClosed,
                   gFail, gExc>>
    /\ UNCHANGED <<patchVars, streamVars, clientVars>>

\* the generator leaves its try block, for reason f: finally: aclose()
BodyFinally(f, whole) ==
    /\ gPc = "iterating"
    /\ Finish([gResp EXCEPT !.complete = whole], f, "")
    /\ gClosed' = gClosed + 1
    /\ UNCHANGED <<gRoute, gReq, gAccept, gPayload, gStream, gStatus, gBody, gRead>>
    /\ UNCHANGED <<patchVars, streamVars, clientVars>>

\* the backend stream is exhausted
BodyEnd == BodyFinally("", TRUE)

\* except httpx.StreamError: logged, the body ends there
BodyStreamError == BodyFinally("stream_error", TRUE)

\* any other exception from the backend stream passes through the generator
BodyTransportError == BodyFinally("transport", FALSE)

\* the caller disconnects while the generator is suspended: it is closed
BodyDisconnect == BodyFinally("disconnect", FALSE)

GateNext ==
    \/ ChatForward
    \/ GenericForward
    \/ SendTimeout
    \/ SendUnreachable
    \/ SendRaises
    \/ SendOk
    \/ HandleStreamError
    \/ HandleBuffered
    \/ HandleReadFails
    \/ HandleStreamOk
    \/ BodyStart
    \/ DisconnectBeforeBody
    \/ BodyChunk
    \/ BodyEnd
    \/ BodyStreamError
    \/ BodyTransportError
    \/ BodyDisconnect

InitGateway == PatchIdle /\ StreamIdle /\ ClientIdle /\ GateInit

SpecGateway == InitGateway /\ [][GateNext]_vars

\* C1: the backend response is closed exactly once on every exit path.
C1_ClosedExactlyOnce ==
    /\ gClosed <= 1
    /\ (gPc = "done" /\ gStatus # 0) => gClosed = 1

\* C2: a backend response with status >= 400 reaches the caller with the
\* same status and the same body bytes, on both paths.
C2_ErrorPassThrough ==
    (gPc = "done" /\ gRead /\ gStatus >= 400) =>
        /\ gResp.status = gStatus
        /\ gResp.body = gBody

SampledFields == {"temperature", "top_p", "top_k", "presence_penalty"}
ConfiguredDefault ==
    [temperature |-> DEFAULT_TEMPERATURE, top_p |-> DEFAULT_TOP_P, top_k |-> DEFAULT_TOP_K,
     presence_penalty |-> DEFAULT_PRESENCE_PENALTY]

\* C6: the outbound payload has chat_template_kwargs.enable_thinking false
\* whatever the caller sent, each sampling field is the caller's value when
\* supplied and the configured default only when omitted, and every other
\* field the caller set is carried unchanged.
C6_OutboundPayload ==
    (gRoute = "chat" /\ gPc # "start") =>
        /\ "chat_template_kwargs" \in DOMAIN gPayload
        /\ gPayload["chat_template_kwargs"]["enable_thinking"] = "False"
        /\ \A f \in SampledFields :
              /\ f \in DOMAIN gPayload
              /\ gPayload[f] = IF f \in gReq.set THEN gReq.fields[f] ELSE ConfiguredDefault[f]
        /\ \A f \in gReq.set \ (SampledFields \cup {"chat_template_kwargs"}) :
              /\ f \in DOMAIN gPayload
              /\ gPayload[f] = gReq.fields[f]

C6_Witness ==
    /\ gRoute = "chat" /\ gPc = "sending"
    /\ "temperature" \in gReq.set /\ gReq.fields["temperature"] = "0.2"
    /\ "top_p" \notin gReq.set
    /\ "seed" \in gReq.set
    /\ "chat_template_kwargs" \in gReq.set

\* C9: a failure that is not a timeout, a transport failure or a backend
\* error status gives the caller a 500 whose body holds nothing of the
\* exception's text.
C9_NoInternalDetail ==
    (gPc = "done" /\ gFail = "internal") =>
        /\ gResp.status = 500
        /\ \A i \in 1..Len(gResp.body) : gResp.body[i] # gExc

====
